---------------------------- MODULE Spec2Model ----------------------------
(***************************************************************************)
(* State-machine model of the stm32ld loader driver (src/main.c): the      *)
(* parameter check, the connect retry loop, the version and chip-ID        *)
(* compatibility checks, write-unprotect, erase, the chunked flash         *)
(* programming loop with its progress callback, and the optional go.       *)
(*                                                                         *)
(* The bootloader library behind stm32ld.h (stm32_init, stm32_get_version, *)
(* ..., stm32_write_flash) is not part of src/.  Each library call is      *)
(* modelled by its return code; the transfer loop of stm32_write_flash is  *)
(* modelled from section 4.5 of the specification.                         *)
(***************************************************************************)
EXTENDS Integers, Sequences, FiniteSets, TLC

VARIABLES
    pc,             \* position of main(): which step runs next
    port,           \* ProgParam.port
    file,           \* ProgParam.file
    skip_flash,     \* ProgParam.skip_flash
    send_go,        \* ProgParam.send_go
    fpsize,         \* static u32 fpsize
    timeout,        \* static int timeout of the connect loop
    major,          \* u8 major
    minor,          \* u8 minor
    version,        \* u16 version (holds the chip ID)
    expected_next,  \* static int expected_next of writeh_progress
    wrote,          \* u32 wrote of stm32_write_flash
    address,        \* u32 address of stm32_write_flash
    fpos,           \* read position of fp
    feof,           \* end-of-file indicator of fp
    printed,        \* thresholds printed by writeh_progress, in order
    cmds,           \* device commands issued so far, with their results
    sleeps,         \* number of sleep(1) calls
    flashCalls,     \* number of stm32_write_flash invocations
    reads,          \* chunk lengths returned by writeh_read_data, in order
    session,        \* session state reached (section 4.4 names)
    errmsg,         \* fatal message written to stderr ("" if none)
    exitcode,       \* process result: -1 while running, then 0 or 1
    dev             \* the environment: file on disk and device behaviour

vars == << pc, port, file, skip_flash, send_go, fpsize, timeout, major, minor,
           version, expected_next, wrote, address, fpos, feof, printed, cmds,
           sleeps, flashCalls, reads, session, errmsg, exitcode, dev >>

---------------------------------------------------------------------------
(* Bounds of the model *)

\* largest number of consecutive failing connect attempts of the transport
MaxFails == 62
\* largest image size, in bytes, of the general specification
MaxSize == 10
\* largest total size of which every call sequence of the progress function
\* is taken
MaxProgressSize == 24

---------------------------------------------------------------------------
(* Program constants *)

BL_VERSION_MAJOR == 2
BL_VERSION_MINOR == 1
BL_MKVER(ma, mi) == ma * 256 + mi
BL_MINVERSION == BL_MKVER(BL_VERSION_MAJOR, BL_VERSION_MINOR)

\* the table with its terminating 0
SUPPORTED_CHIP_IDS == << 1040, 1044, 1043, 1088, 0 >>

\* if (timeout > 60)
HandshakeLimit == 60
\* if (major == 3)
ExtendedEraseMajor == 3
\* expected_next = 10; expected_next += 10
ProgressStep == 10
\* largest value of the u8 major, minor
U8Max == 255
U16Max == 256 * 256 - 1
\* u32 values are held as integers below 2^31 (TLC's integers are 32 bits
\* wide, signed); the image sizes of the model keep wrote, address
\* and fpsize in that range, where conversion to u32 changes nothing and
\* wrote + datalen does not wrap.  The product wrote * 100 does wrap in
\* that range, and is computed in halves of 16 bits below.
Half == 256 * 256

\* stm32ld.h (not in src/): chunk size asked of the data source, flash base
STM32_WRITE_BUFSIZE == 256
STM32_FLASH_START_ADDRESS == 134217728

Min(a, b) == IF a < b THEN a ELSE b

---------------------------------------------------------------------------
(* Return codes of the library calls (stm32ld.h) *)

STM32_OK == "STM32_OK"
STM32_COMM_ERROR == "STM32_COMM_ERROR"
ReturnCodes == { STM32_OK, STM32_COMM_ERROR }

---------------------------------------------------------------------------
(* Decisions of main() *)

\* a variant that gives up one failed attempt later
HandshakeGivesUp_Late(t) == t > HandshakeLimit + 1

\* a variant that gives up one failed attempt earlier
HandshakeGivesUp_Early(t) == t >= HandshakeLimit

\* if (timeout > 60), evaluated after timeout++
HandshakeGivesUp(t) == t > HandshakeLimit

\* variants: the version check dropped; the check made on the major alone
VersionAccepted_Always(ma, mi) == TRUE
VersionAccepted_MajorOnly(ma, mi) == ~(ma < BL_VERSION_MAJOR)

\* the negation of ( BL_MKVER( major, minor ) < BL_MINVERSION )
VersionAccepted(ma, mi) == ~(BL_MKVER(ma, mi) < BL_MINVERSION)

\* while (*chip_ids != 0) { if (*chip_ids == version) break; chip_ids++; }
\* the index at which the scan of the table stops
RECURSIVE ChipScan(_, _)
ChipScan(i, v) ==
    IF SUPPORTED_CHIP_IDS[i] = 0 THEN i
    ELSE IF SUPPORTED_CHIP_IDS[i] = v THEN i
    ELSE ChipScan(i + 1, v)

\* a variant: membership in the whole table, its terminating 0 included
ChipSupported_WholeTable(v) ==
    \E i \in 1 .. Len(SUPPORTED_CHIP_IDS) : SUPPORTED_CHIP_IDS[i] = v

\* the negation of ( *chip_ids == 0 ) after the scan
ChipSupported(v) == SUPPORTED_CHIP_IDS[ChipScan(1, v)] # 0

\* a variant: extended erase from major 3 upwards
UseExtendedErase_From3(ma) == ma >= ExtendedEraseMajor

\* if (major == 3)
UseExtendedErase(ma) == ma = ExtendedEraseMajor

\* variants: a result that is not tested
EraseFailed_Never(rc) == FALSE
WriteFlashFailed_Never(rc) == FALSE
GoFailed_Never(rc) == FALSE
UnprotectFailed_Never(rc) == FALSE

\* the != STM32_OK test after each library call
GetVersionFailed(rc) == rc # STM32_OK
GetChipIdFailed(rc) == rc # STM32_OK
UnprotectFailed(rc) == rc # STM32_OK
EraseFailed(rc) == rc # STM32_OK
WriteFlashFailed(rc) == rc # STM32_OK
GoFailed(rc) == rc # STM32_OK

\* a variant: go sent whatever the flag
AfterFlash_AlwaysGo(go) == "go"

\* if (ProgParam.send_go == 1) ... return 0: the step after flashing or skipping
AfterFlash(go) == IF go = 1 THEN "go" ELSE "done"

\* a variant: the skip flag not looked at
AfterIdentified_NoSkip(skip, go) == "unprotect"

\* if (ProgParam.skip_flash == 0) ... else printf("Skipping flashing ... ")
AfterIdentified(skip, go) == IF skip = 0 THEN "unprotect" ELSE AfterFlash(go)

\* exit(1) at every fatal abort, return 0 at the end of main
ExitCodeAt(p) == IF p = "done" THEN 0 ELSE IF p = "exit" THEN 1 ELSE -1

---------------------------------------------------------------------------
(* The callbacks handed to stm32_write_flash *)

\* a variant: the call returns the length asked for, not the count read
writeh_read_data_ReturnsLen(len, pos, eof, size) ==
    IF eof THEN { 0 }
    ELSE IF pos >= size THEN { 0 }
    ELSE { len }

\* a variant: the buffer is reported filled even when nothing is left
writeh_read_data_AlwaysFull(len, pos, eof, size) ==
    IF eof THEN { 0 } ELSE { len }

\* writeh_read_data(dst, len): the byte counts the call may return.  fread
\* is asked for len bytes and may deliver any non-empty part of what is left
\* of the file; it delivers 0 only at the end of the file.
writeh_read_data(len, pos, eof, size) ==
    IF eof THEN { 0 }
    ELSE IF pos >= size THEN { 0 }
    ELSE 1 .. Min(len, size - pos)

\* the counts among S that the file delivers: any of them, or, for a file
\* that always fills the buffer, the largest
Delivered(S, short) ==
    IF short THEN S ELSE { n \in S : \A m \in S : m <= n }

\* (wrote * 100) modulo 2^32, as << high half, low half >>
Mul100(w) ==
    LET lo == (w % Half) * 100
        hi == (w \div Half) * 100 + lo \div Half
    IN  << hi % Half, lo % Half >>

\* bit k (31 is the highest) of the 32-bit value << high half, low half >>
Bit(p, k) == IF k >= 16 THEN (p[1] \div 2^(k - 16)) % 2 ELSE (p[2] \div 2^k) % 2

\* the 32-bit value p divided by size > 0, bit by bit from bit k down, with
\* remainder r < size and quotient q so far; 2r + b >= size is tested, and
\* 2r + b - size computed, without leaving 31 bits
RECURSIVE DivBits(_, _, _, _, _)
DivBits(p, size, k, r, q) ==
    IF k < 0 THEN q
    ELSE LET b == Bit(p, k)
             ge == r >= size - r - b
         IN  DivBits(p, size, k - 1,
                     IF ge THEN r - (size - r - b) ELSE 2 * r + b,
                     2 * q + (IF ge THEN 1 ELSE 0))

\* the least byte count w with w * 100 >= q * size, without forming w * 100
PercentReached(q, size) ==
    q * (size \div 100) + (q * (size % 100) + 99) \div 100

\* floor(w * 100 / size) over the integers, for 0 <= w <= size and size > 0
Percent(w, size) ==
    CHOOSE q \in 0 .. 100 :
        PercentReached(q, size) <= w /\ w < PercentReached(q + 1, size)

\* a variant: the percentage in arithmetic wide enough never to wrap
Pwrite_Wide(w, size) == Percent(w, size)

\* unsigned pwrite = (wrote * 100) / fpsize, in 32-bit unsigned arithmetic
Pwrite(w, size) == DivBits(Mul100(w), size, 31, 0, 0)

\* a variant: the threshold is printed up to one step ahead of pwrite
ProgressFires_Ahead(w, size, en) == Pwrite(w, size) + ProgressStep >= en

\* if (pwrite >= expected_next)
ProgressFires(w, size, en) == Pwrite(w, size) >= en

---------------------------------------------------------------------------
(* The log of device commands *)

Cmd(name, rc) == [ cmd |-> name, ok |-> (rc = STM32_OK), addr |-> 0, len |-> 0 ]
WriteCmd(a, n, rc) ==
    [ cmd |-> "write_memory", ok |-> (rc = STM32_OK), addr |-> a, len |-> n ]

---------------------------------------------------------------------------
(* Initial states: the arguments given, the file on disk, the device *)

\* dev.fails: the connect attempt fails this many times, then succeeds;
\* dev.major, dev.minor, dev.chip: what GetVersion and GetChipId report;
\* dev.exists, dev.size: whether fopen finds the image, and its length;
\* dev.short: whether fread may deliver less than asked before the end of
\* the file (any chunking), or always fills the buffer while data is left.
InitFrom(Fails, Versions, Chips, Sizes, Ports, Files, Skips, Gos, Shorts) ==
    /\ pc = "check_params"
    /\ port \in Ports
    /\ file \in Files
    /\ skip_flash \in Skips
    /\ send_go \in Gos
    /\ dev \in { [ fails |-> n, major |-> v[1], minor |-> v[2], chip |-> c,
                   exists |-> (sz >= 0), size |-> IF sz >= 0 THEN sz ELSE 0,
                   short |-> sh ] :
                 n \in Fails, v \in Versions, c \in Chips, sz \in Sizes,
                 sh \in Shorts }
    /\ fpsize = 0
    /\ timeout = 0
    /\ major = 0
    /\ minor = 0
    /\ version = 0
    /\ expected_next = ProgressStep
    /\ wrote = 0
    /\ address = 0
    /\ fpos = 0
    /\ feof = FALSE
    /\ printed = << >>
    /\ cmds = << >>
    /\ sleeps = 0
    /\ flashCalls = 0
    /\ reads = << >>
    /\ session = "Disconnected"
    /\ errmsg = ""
    /\ exitcode = -1

\* the same, with a data source of any chunking
InitWith(Fails, Versions, Chips, Sizes, Ports, Files, Skips, Gos) ==
    InitFrom(Fails, Versions, Chips, Sizes, Ports, Files, Skips, Gos, { TRUE })

\* a size of -1 stands for an image path that fopen cannot open
ImageSizes == -1 .. MaxSize

SomeVersions == { <<1, 255>>, <<2, 0>>, <<2, 1>>, <<3, 0>>, <<255, 255>> }
SomeChips == { 0, 1040, 1041, 1088 }
SomePorts == { "", "/dev/ttyS0" }
SomeFiles == { "0", "flash.bin" }

Init ==
    InitWith({ 0, 1, MaxFails }, SomeVersions, SomeChips, ImageSizes,
             SomePorts, SomeFiles, { 0, 1 }, { 0, 1 })

---------------------------------------------------------------------------
(* The steps of main() *)

\* lines 94-129: check the parameters, open the image, take its size
Main_CheckParams ==
    /\ pc = "check_params"
    /\ IF port = ""
       THEN /\ pc' = "exit"
            /\ errmsg' = "No UART port selected, try ./stm32ld -h"
            /\ UNCHANGED << skip_flash, fpsize >>
       ELSE IF skip_flash = 0 /\ file = "0"
       THEN /\ pc' = "connect"
            /\ skip_flash' = 1
            /\ UNCHANGED << errmsg, fpsize >>
       ELSE IF skip_flash = 0 /\ ~dev.exists
       THEN /\ pc' = "exit"
            /\ errmsg' = "Unable to open file"
            /\ UNCHANGED << skip_flash, fpsize >>
       ELSE /\ pc' = "connect"
            /\ fpsize' = IF skip_flash = 0 THEN dev.size ELSE fpsize
            /\ UNCHANGED << skip_flash, errmsg >>
    /\ exitcode' = ExitCodeAt(pc')
    /\ UNCHANGED << port, file, send_go, timeout, major, minor, version,
                    expected_next, wrote, address, fpos, feof, printed, cmds,
                    sleeps, flashCalls, reads, session, dev >>

\* lines 131-143: one turn of the connect loop
Main_Connect ==
    /\ pc = "connect"
    /\ LET rc == IF timeout < dev.fails THEN STM32_COMM_ERROR ELSE STM32_OK
       IN  /\ cmds' = Append(cmds, Cmd("init", rc))
           /\ IF rc # STM32_OK
              THEN /\ timeout' = timeout + 1
                   /\ sleeps' = sleeps + 1
                   /\ IF HandshakeGivesUp(timeout')
                      THEN /\ pc' = "exit"
                           /\ errmsg' = "Unable to connect to bootloader"
                      ELSE /\ pc' = "connect"
                           /\ errmsg' = errmsg
                   /\ session' = session
              ELSE /\ pc' = "get_version"
                   /\ session' = "Connected"
                   /\ UNCHANGED << timeout, sleeps, errmsg >>
    /\ exitcode' = ExitCodeAt(pc')
    /\ UNCHANGED << port, file, skip_flash, send_go, fpsize, major, minor,
                    version, expected_next, wrote, address, fpos, feof,
                    printed, flashCalls, reads, dev >>

\* lines 145-162: get the bootloader version and check it
Main_GetVersion ==
    /\ pc = "get_version"
    /\ \E rc \in ReturnCodes :
         /\ cmds' = Append(cmds, Cmd("get_version", rc))
         /\ IF GetVersionFailed(rc)
            THEN /\ pc' = "exit"
                 /\ errmsg' = "Unable to get bootloader version"
                 /\ UNCHANGED << major, minor, session >>
            ELSE /\ major' = dev.major
                 /\ minor' = dev.minor
                 /\ IF VersionAccepted(major', minor')
                    THEN /\ pc' = "get_chip_id"
                         /\ session' = "VersionKnown"
                         /\ errmsg' = errmsg
                    ELSE /\ pc' = "exit"
                         /\ errmsg' = "Unsupported bootloader version"
                         /\ session' = session
    /\ exitcode' = ExitCodeAt(pc')
    /\ UNCHANGED << port, file, skip_flash, send_go, fpsize, timeout, version,
                    expected_next, wrote, address, fpos, feof, printed,
                    sleeps, flashCalls, reads, dev >>

\* lines 164-189, 236-250: get the chip ID, look it up, then either go on to
\* flashing or skip it
Main_GetChipId ==
    /\ pc = "get_chip_id"
    /\ \E rc \in ReturnCodes :
         /\ cmds' = Append(cmds, Cmd("get_chip_id", rc))
         /\ IF GetChipIdFailed(rc)
            THEN /\ pc' = "exit"
                 /\ errmsg' = "Unable to get chip ID"
                 /\ UNCHANGED << version, session >>
            ELSE /\ version' = dev.chip
                 /\ IF ChipSupported(version')
                    THEN /\ pc' = AfterIdentified(skip_flash, send_go)
                         /\ session' = "Identified"
                         /\ errmsg' = errmsg
                    ELSE /\ pc' = "exit"
                         /\ errmsg' = "Unsupported chip ID"
                         /\ session' = session
    /\ exitcode' = ExitCodeAt(pc')
    /\ UNCHANGED << port, file, skip_flash, send_go, fpsize, timeout, major,
                    minor, expected_next, wrote, address, fpos, feof, printed,
                    sleeps, flashCalls, reads, dev >>

\* lines 191-198: write unprotect
Main_WriteUnprotect ==
    /\ pc = "unprotect"
    /\ \E rc \in ReturnCodes :
         /\ cmds' = Append(cmds, Cmd("write_unprotect", rc))
         /\ IF UnprotectFailed(rc)
            THEN /\ pc' = "exit"
                 /\ errmsg' = "Unable to execute write unprotect"
                 /\ session' = session
            ELSE /\ pc' = "erase"
                 /\ session' = "Unprotected"
                 /\ errmsg' = errmsg
    /\ exitcode' = ExitCodeAt(pc')
    /\ UNCHANGED << port, file, skip_flash, send_go, fpsize, timeout, major,
                    minor, version, expected_next, wrote, address, fpos, feof,
                    printed, sleeps, flashCalls, reads, dev >>

\* lines 200-221: erase, with the command the major version selects
Main_Erase ==
    /\ pc = "erase"
    /\ \E rc \in ReturnCodes :
         /\ cmds' = Append(cmds, Cmd(IF UseExtendedErase(major)
                                     THEN "extended_erase" ELSE "erase", rc))
         /\ IF EraseFailed(rc)
            THEN /\ pc' = "exit"
                 /\ errmsg' = IF UseExtendedErase(major)
                              THEN "Unable to extended erase chip"
                              ELSE "Unable to erase chip"
                 /\ session' = session
            ELSE /\ pc' = "program"
                 /\ session' = "Erased"
                 /\ errmsg' = errmsg
    /\ exitcode' = ExitCodeAt(pc')
    /\ UNCHANGED << port, file, skip_flash, send_go, fpsize, timeout, major,
                    minor, version, expected_next, wrote, address, fpos, feof,
                    printed, sleeps, flashCalls, reads, dev >>

\* lines 223-226: call stm32_write_flash(writeh_read_data, writeh_progress);
\* the call starts with wrote = 0 at the flash base address
Main_Program ==
    /\ pc = "program"
    /\ pc' = "write_loop"
    /\ flashCalls' = flashCalls + 1
    /\ wrote' = 0
    /\ address' = STM32_FLASH_START_ADDRESS
    /\ exitcode' = ExitCodeAt(pc')
    /\ UNCHANGED << port, file, skip_flash, send_go, fpsize, timeout, major,
                    minor, version, expected_next, fpos, feof, printed, cmds,
                    sleeps, reads, session, errmsg, dev >>

\* a variant: expected_next is not advanced after printing
writeh_progress_NoAdvance(w) ==
    IF ProgressFires(w, fpsize, expected_next)
    THEN << Append(printed, expected_next), expected_next >>
    ELSE << printed, expected_next >>

\* writeh_progress(w): lines 39-49, the threshold printed (if any) and the
\* new expected_next, as the pair << printed', expected_next' >>
writeh_progress(w) ==
    IF ProgressFires(w, fpsize, expected_next)
    THEN << Append(printed, expected_next), expected_next + ProgressStep >>
    ELSE << printed, expected_next >>

\* a variant: the address advances by the buffer size, whatever was read
NextAddress_ByBuffer(a, n) == a + STM32_WRITE_BUFSIZE

\* the address of the next block: advanced by the length of the chunk written
NextAddress(a, n) == a + n

\* one turn of the loop of stm32_write_flash: read a chunk; a zero-length
\* read ends the transfer and main goes on (lines 231-239); otherwise send
\* one write-memory command, and on its acknowledgement advance wrote and
\* address and call the progress function; a failure returns to main, which
\* aborts (lines 226-230)
WriteFlash_Block ==
    /\ pc = "write_loop"
    /\ \E n \in Delivered(writeh_read_data(STM32_WRITE_BUFSIZE, fpos, feof,
                                            dev.size), dev.short) :
         /\ reads' = Append(reads, n)
         /\ fpos' = fpos + n
         /\ feof' = IF feof THEN TRUE
                    ELSE (n < STM32_WRITE_BUFSIZE /\ fpos + n >= dev.size)
         /\ IF n = 0
            THEN /\ pc' = AfterFlash(send_go)
                 /\ session' = "Programmed"
                 /\ UNCHANGED << cmds, wrote, address, printed, expected_next,
                                 errmsg >>
            ELSE \E rc \in ReturnCodes :
                 /\ cmds' = Append(cmds, WriteCmd(address, n, rc))
                 /\ IF WriteFlashFailed(rc)
                    THEN /\ pc' = "exit"
                         /\ errmsg' = "Unable to program FLASH memory."
                         /\ UNCHANGED << wrote, address, printed,
                                         expected_next, session >>
                    ELSE /\ wrote' = wrote + n
                         /\ address' = NextAddress(address, n)
                         /\ IF fpsize = 0
                            THEN \* division by zero in writeh_progress
                                 /\ pc' = "fault"
                                 /\ UNCHANGED << printed, expected_next >>
                            ELSE /\ pc' = "write_loop"
                                 /\ printed' = writeh_progress(wrote')[1]
                                 /\ expected_next' = writeh_progress(wrote')[2]
                         /\ UNCHANGED << session, errmsg >>
    /\ exitcode' = ExitCodeAt(pc')
    /\ UNCHANGED << port, file, skip_flash, send_go, fpsize, timeout, major,
                    minor, version, sleeps, flashCalls, dev >>

\* lines 239-250: the go command, then return 0
Main_Go ==
    /\ pc = "go"
    /\ \E rc \in ReturnCodes :
         /\ cmds' = Append(cmds, Cmd("go", rc))
         /\ IF GoFailed(rc)
            THEN /\ pc' = "exit"
                 /\ errmsg' = "Unable to run Go command."
                 /\ session' = session
            ELSE /\ pc' = "done"
                 /\ session' = "Executing"
                 /\ errmsg' = errmsg
    /\ exitcode' = ExitCodeAt(pc')
    /\ UNCHANGED << port, file, skip_flash, send_go, fpsize, timeout, major,
                    minor, version, expected_next, wrote, address, fpos, feof,
                    printed, sleeps, flashCalls, reads, dev >>

Next ==
    \/ Main_CheckParams
    \/ Main_Connect
    \/ Main_GetVersion
    \/ Main_GetChipId
    \/ Main_WriteUnprotect
    \/ Main_Erase
    \/ Main_Program
    \/ WriteFlash_Block
    \/ Main_Go

Spec == Init /\ [][Next]_vars

---------------------------------------------------------------------------
(* Specifications over other populations of inputs, same steps *)

\* every number of failing connect attempts up to MaxFails
InitHandshake ==
    InitWith(0 .. MaxFails, { <<2, 1>>, <<3, 0>> }, { 1040 }, { 0, 2 },
             { "/dev/ttyS0" }, { "flash.bin" }, { 0, 1 }, { 0, 1 })

SpecHandshake == InitHandshake /\ [][Next]_vars

\* every 16-bit chip ID
InitChip ==
    InitWith({ 0 }, { <<2, 1>> }, 0 .. U16Max, { 1 },
             { "/dev/ttyS0" }, { "flash.bin" }, { 0 }, { 1 })

SpecChip == InitChip /\ [][Next]_vars

\* every pair of 8-bit major and minor
InitVersion ==
    InitWith({ 0 }, (0 .. U8Max) \X (0 .. U8Max), { 1040 }, { 0 },
             { "/dev/ttyS0" }, { "flash.bin" }, { 0 }, { 1 })

SpecVersion == InitVersion /\ [][Next]_vars

\* every major, with several minors, every supported chip ID, every flag
InitErase ==
    InitWith({ 0 }, (0 .. U8Max) \X { 0, 1, U8Max }, { 1040, 1044, 1043, 1088 },
             { 0, 1 }, { "/dev/ttyS0" }, { "0", "flash.bin" }, { 0, 1 }, { 0, 1 })

SpecErase == InitErase /\ [][Next]_vars

---------------------------------------------------------------------------
(* What the log of commands says *)

CmdIndices == 1 .. Len(cmds)
Issued(c) == \E i \in CmdIndices : cmds[i].cmd = c
Succeeded(c) == \E i \in CmdIndices : cmds[i].cmd = c /\ cmds[i].ok
FailedCmd(c) == \E i \in CmdIndices : cmds[i].cmd = c /\ ~cmds[i].ok
Count(c) == Cardinality({ i \in CmdIndices : cmds[i].cmd = c })

\* the connect loop has been entered and left
HandshakeOver == cmds # << >> /\ pc # "connect"

---------------------------------------------------------------------------
(* C1 *)

---------------------------------------------------------------------------
(* C2 *)

\* programming was not skipped and stm32_write_flash returned STM32_OK
ProgrammedOK == skip_flash = 0 /\ session \in { "Programmed", "Executing" }

AllThresholds == [ i \in 1 .. 10 |-> 10 * i ]

\* C2: when programming of an image of totalSize > 0 has completed normally,
\* the progress callback has reported 10, 20, ..., 100, each exactly once
\* and in increasing order.
C2_AllThresholdsReported ==
    (ProgrammedOK /\ fpsize > 0) => printed = AllThresholds

---------------------------------------------------------------------------
(* C3 *)

SupportedIds == { 1040, 1044, 1043, 1088 }
FlashCmds == { "write_unprotect", "erase", "extended_erase", "write_memory", "go" }
EraseCmds == { "erase", "extended_erase" }

\* command c succeeded before the i-th command of the log
OkBefore(i, c) == \E j \in 1 .. (i - 1) : cmds[j].cmd = c /\ cmds[j].ok

\* C3: GetVersion is issued only after a successful connect attempt,
\* GetChipId only after the version was obtained and is at least 2.1, and
\* write-unprotect, erase, extended-erase, write-memory and go only after the
\* version check passed and the chip ID reported is one of the supported IDs.
C3_CommandGating ==
    \A i \in CmdIndices :
        /\ cmds[i].cmd = "get_version" => OkBefore(i, "init")
        /\ cmds[i].cmd = "get_chip_id" =>
               /\ OkBefore(i, "init")
               /\ OkBefore(i, "get_version")
               /\ major = dev.major /\ minor = dev.minor
               /\ major * 256 + minor >= 513
        /\ cmds[i].cmd \in FlashCmds =>
               /\ OkBefore(i, "get_version")
               /\ major * 256 + minor >= 513
               /\ OkBefore(i, "get_chip_id")
               /\ version = dev.chip
               /\ version \in SupportedIds

\* a run that unprotected, erased, wrote a block and sent go
C3_Witness ==
    /\ Succeeded("write_unprotect")
    /\ Issued("extended_erase")
    /\ Issued("write_memory")
    /\ Issued("go")

---------------------------------------------------------------------------
(* C4 *)

\* a successful write-unprotect followed by a successful erase, both among
\* the first k commands of the log
UnprotectedThenErased(k) ==
    \E i, j \in 1 .. k :
        /\ i < j
        /\ cmds[i].cmd = "write_unprotect" /\ cmds[i].ok
        /\ cmds[j].cmd \in EraseCmds /\ cmds[j].ok

\* C4: the program step is started, and any write-memory command issued,
\* only after write-unprotect succeeded and then an erase command succeeded;
\* after a failed unprotect or a failed erase the run has aborted with the
\* program step never started and no write-memory command issued.
C4_EraseBeforeProgram ==
    /\ \A k \in CmdIndices :
           cmds[k].cmd = "write_memory" => UnprotectedThenErased(k - 1)
    /\ (pc \in { "program", "write_loop" } \/ flashCalls > 0) =>
           UnprotectedThenErased(Len(cmds))
    /\ (FailedCmd("write_unprotect") \/ FailedCmd("erase")
            \/ FailedCmd("extended_erase")) =>
           /\ pc = "exit"
           /\ flashCalls = 0
           /\ ~Issued("write_memory")

\* a write-memory command was acknowledged after unprotect and erase
C4_Witness ==
    /\ Succeeded("write_memory")
    /\ UnprotectedThenErased(Len(cmds))
    /\ flashCalls = 1

---------------------------------------------------------------------------
(* C5 *)

\* C5: once GetChipId has returned a chip ID, the session has gone past
\* identification if and only if the ID is 0x0410, 0x0414, 0x0413 or 0x0440;
\* for every other 16-bit value, 0x0000 included, the run has aborted with
\* "Unsupported chip ID" and GetChipId is the last command issued.
C5_ChipIdCheck ==
    Succeeded("get_chip_id") =>
        /\ version = dev.chip
        /\ session \in { "Identified", "Unprotected", "Erased", "Programmed",
                         "Executing" } <=> version \in SupportedIds
        /\ version \notin SupportedIds =>
               /\ pc = "exit"
               /\ exitcode = 1
               /\ errmsg = "Unsupported chip ID"
               /\ cmds[Len(cmds)].cmd = "get_chip_id"

\* the device reported chip ID 0, the table's terminating value, and the
\* run aborted on it
C5_Witness ==
    /\ Succeeded("get_chip_id")
    /\ version = 0
    /\ errmsg = "Unsupported chip ID"

---------------------------------------------------------------------------
(* C6 *)

\* C6: once GetVersion has returned (major, minor), the session has gone on
\* to GetChipId if and only if major*256+minor >= 513; otherwise the run
\* has aborted with "Unsupported bootloader version" and GetChipId was
\* never issued.
C6_VersionCheck ==
    Succeeded("get_version") =>
        /\ major = dev.major /\ minor = dev.minor
        /\ (pc = "get_chip_id" \/ Issued("get_chip_id")) <=>
               major * 256 + minor >= 513
        /\ major * 256 + minor < 513 =>
               /\ pc = "exit"
               /\ exitcode = 1
               /\ errmsg = "Unsupported bootloader version"
               /\ ~Issued("get_chip_id")

\* version 2.0, just below the minimum, was reported and rejected
C6_Witness ==
    /\ Succeeded("get_version")
    /\ major = 2 /\ minor = 0
    /\ errmsg = "Unsupported bootloader version"

---------------------------------------------------------------------------
(* C7 *)

\* C7: never more than one erase command is issued in a run; once the erase
\* step has run (write-unprotect succeeded and main is past the erase),
\* exactly one was issued, and it is extended-erase if and only if the
\* major version is 3, standard erase otherwise.
C7_EraseSelection ==
    /\ Count("erase") + Count("extended_erase") <= 1
    /\ Issued("extended_erase") => major = 3
    /\ Issued("erase") => major # 3
    /\ (Succeeded("write_unprotect") /\ pc # "erase") =>
           /\ Count("erase") + Count("extended_erase") = 1
           /\ Issued("extended_erase") <=> major = 3

\* a bootloader of major version above 3 was erased with the standard
\* command
C7_Witness ==
    /\ major > 3
    /\ Succeeded("erase")
    /\ ~Issued("extended_erase")

---------------------------------------------------------------------------
(* C8 *)

\* stm32_write_flash was called once and returned STM32_OK: its loop ended
\* on a zero-length read with no write-memory command refused
ProgramSucceeded ==
    /\ flashCalls = 1
    /\ reads # << >>
    /\ reads[Len(reads)] = 0
    /\ ~FailedCmd("write_memory")

\* the handshake, both checks and every requested step succeeded
AllSucceeded ==
    /\ Succeeded("init")
    /\ Succeeded("get_version")
    /\ major * 256 + minor >= 513
    /\ Succeeded("get_chip_id")
    /\ version \in SupportedIds
    /\ skip_flash = 0 =>
           /\ Succeeded("write_unprotect")
           /\ Succeeded("erase") \/ Succeeded("extended_erase")
           /\ ProgramSucceeded
    /\ send_go = 1 => Succeeded("go")

\* C8: the run returns 0 if and only if the handshake, the version check,
\* the chip-ID check and every requested step succeeded; every fatal abort
\* ends the run with exit status 1 and a message on stderr.
C8_Outcome ==
    /\ exitcode \in { -1, 0, 1 }
    /\ exitcode = 0 <=> AllSucceeded
    /\ exitcode = 0 <=> pc = "done"
    /\ exitcode = 1 <=> pc = "exit"
    /\ errmsg # "" <=> pc = "exit"

\* the image was programmed, then the go command failed: exit status 1
C8_Witness ==
    /\ ProgramSucceeded
    /\ FailedCmd("go")
    /\ exitcode = 1
    /\ errmsg = "Unable to run Go command."

---------------------------------------------------------------------------
(* C9 *)

\* C9: GetVersion, GetChipId, write-unprotect, erase (of either kind),
\* the program step and go are each invoked at most once in a run; a
\* command other than the connect attempt that failed is the last command
\* of the run, which has aborted with exit status 1; after a refused
\* write-memory command the session stays in state Erased.
C9_NoRetryNoContinuation ==
    /\ \A c \in { "get_version", "get_chip_id", "write_unprotect", "go" } :
           Count(c) <= 1
    /\ Count("erase") + Count("extended_erase") <= 1
    /\ flashCalls <= 1
    /\ \A i \in CmdIndices :
           (~cmds[i].ok /\ cmds[i].cmd # "init") =>
               /\ i = Len(cmds)
               /\ pc = "exit"
               /\ exitcode = 1
    /\ FailedCmd("write_memory") => session = "Erased"

\* a block was written, then a later block was refused, after a connect
\* attempt that had to be repeated
C9_Witness ==
    /\ Count("init") > 1
    /\ Succeeded("write_memory")
    /\ FailedCmd("write_memory")
    /\ session = "Erased"
    /\ pc = "exit"

---------------------------------------------------------------------------
(* C10 *)

RECURSIVE SumSeq(_)
SumSeq(q) == IF q = << >> THEN 0 ELSE q[1] + SumSeq(Tail(q))

\* the lengths of the acknowledged write-memory commands, in order
RECURSIVE AckedLens(_)
AckedLens(q) ==
    IF q = << >> THEN << >>
    ELSE IF q[1].cmd = "write_memory" /\ q[1].ok
         THEN << q[1].len >> \o AckedLens(Tail(q))
         ELSE AckedLens(Tail(q))

\* the chunks read so far, less the zero-length read that ended the loop
\* and less a chunk whose write-memory command was refused
ChunksWritten ==
    IF reads = << >> THEN << >>
    ELSE IF reads[Len(reads)] = 0 \/ FailedCmd("write_memory")
         THEN SubSeq(reads, 1, Len(reads) - 1)
         ELSE reads

\* C10: bytesWritten is the sum of the lengths of the chunks read and
\* written so far, each of them non-empty, so it grows by exactly the chunk
\* length on each iteration; it never exceeds totalSize; a zero-length read
\* is the last read, ends the loop, and then bytesWritten = totalSize.
C10_TransferAccounting ==
    /\ \A i \in 1 .. Len(ChunksWritten) : ChunksWritten[i] > 0
    /\ AckedLens(cmds) = ChunksWritten
    /\ wrote = SumSeq(ChunksWritten)
    /\ wrote <= fpsize
    /\ (reads # << >> /\ reads[Len(reads)] = 0) =>
           /\ pc # "write_loop"
           /\ ProgrammedOK
           /\ wrote = fpsize
    /\ ProgrammedOK =>
           /\ reads[Len(reads)] = 0
           /\ wrote = fpsize

\* an image of several bytes was written in chunks of different lengths and
\* the transfer completed
C10_Witness ==
    /\ ProgrammedOK
    /\ Len(reads) >= 4
    /\ reads[1] # reads[2]
    /\ wrote = fpsize
    /\ fpsize > 0

---------------------------------------------------------------------------
(* C11 *)

\* images written in whole buffers, as a file on disk is read: one buffer,
\* two, two and a byte, ten, ten and a few bytes
ScenarioSizes == { 256, 512, 513, 2560, 2570 }

\* small images under every chunking, and the images above in whole buffers
InitTransfer ==
    \/ InitFrom({ 0 }, { <<2, 1>>, <<3, 0>> }, { 1040 }, 0 .. MaxSize,
                { "/dev/ttyS0" }, { "flash.bin" }, { 0 }, { 0, 1 }, { TRUE })
    \/ InitFrom({ 0 }, { <<2, 1>>, <<3, 0>> }, { 1040 }, ScenarioSizes,
                { "/dev/ttyS0" }, { "flash.bin" }, { 0 }, { 0, 1 }, { FALSE })

SpecTransfer == InitTransfer /\ [][Next]_vars

IsWrite(c) == c.cmd = "write_memory"

\* the write-memory commands issued so far, in order
WriteCmds == SelectSeq(cmds, IsWrite)

\* C11: the k-th write-memory command carries the k-th chunk read and
\* targets base + the sum of the lengths of the k-1 chunks written before
\* it; the current address is base + the sum of the lengths of the
\* acknowledged blocks, so it advances by the chunk length on each
\* acknowledged block and not on a refused one; an image of 512 bytes read
\* in buffers of 256 is programmed with exactly two write-memory commands,
\* at base and base + 256.
C11_WriteAddresses ==
    /\ \A k \in 1 .. Len(WriteCmds) :
           /\ WriteCmds[k].len = reads[k]
           /\ WriteCmds[k].addr =
                  STM32_FLASH_START_ADDRESS + SumSeq(SubSeq(reads, 1, k - 1))
           /\ k < Len(WriteCmds) => WriteCmds[k].ok
    /\ flashCalls > 0 =>
           address = STM32_FLASH_START_ADDRESS + SumSeq(AckedLens(cmds))
    /\ (dev.size = 512 /\ ~dev.short /\ ProgrammedOK) =>
           /\ Len(WriteCmds) = 2
           /\ WriteCmds[1].addr = STM32_FLASH_START_ADDRESS
           /\ WriteCmds[1].len = 256
           /\ WriteCmds[2].addr = STM32_FLASH_START_ADDRESS + 256
           /\ WriteCmds[2].len = 256
           /\ session \in { "Programmed", "Executing" }

\* the image of 512 bytes was programmed, its second block at base + 256
C11_Witness ==
    /\ dev.size = 512
    /\ ProgrammedOK
    /\ Len(WriteCmds) = 2
    /\ WriteCmds[2].addr = STM32_FLASH_START_ADDRESS + 256

---------------------------------------------------------------------------
(* C12 *)

\* C12: writeh_progress never divides by a zero fpsize: it runs only after
\* an acknowledged write-memory command, and whenever one was acknowledged
\* or a threshold printed, fpsize > 0; with an image of length zero the
\* program step issues no write-memory command, prints no threshold, and
\* ends on its first read.
C12_EmptyImage ==
    /\ pc # "fault"
    /\ Succeeded("write_memory") => fpsize > 0
    /\ printed # << >> => fpsize > 0
    /\ (fpsize = 0 /\ flashCalls > 0) =>
           /\ ~Issued("write_memory")
           /\ printed = << >>
           /\ expected_next = 10
           /\ wrote = 0
    /\ (fpsize = 0 /\ flashCalls > 0 /\ pc # "write_loop") =>
           /\ reads = << 0 >>
           /\ ProgramSucceeded

\* an image of length zero went through the program step
C12_Witness ==
    /\ dev.exists
    /\ skip_flash = 0
    /\ fpsize = 0
    /\ ProgrammedOK
    /\ reads = << 0 >>
    /\ cmds[Len(cmds)].cmd \in EraseCmds

---------------------------------------------------------------------------
(* The progress function on its own: any sequence of calls *)

\* total sizes around the largest one whose hundredfold fits 32 bits
BigSizes == { 42949672, 42949673, 50000000, 64000000 }

\* byte counts around the points where wrote * 100 passes 2^31 and 2^32
BigArgs ==
    { 0, 1, 429496, 429497, 4294967, 4294968, 21474836, 21474837, 30000000,
      42949671, 42949672, 42949673, 42949674, 45000000, 50000000, 60000000,
      64000000 }

\* the byte counts writeh_progress is called with, for a total of size
ProgressArgs(size) ==
    IF size <= MaxProgressSize THEN 0 .. size
    ELSE { w \in BigArgs : w <= size }

InitProgress ==
    /\ pc = "progress"
    /\ fpsize \in (1 .. MaxProgressSize) \cup BigSizes
    /\ port = "/dev/ttyS0"
    /\ file = "flash.bin"
    /\ skip_flash = 0
    /\ send_go = 0
    /\ dev = [ fails |-> 0, major |-> 2, minor |-> 1, chip |-> 1040,
               exists |-> TRUE, size |-> fpsize, short |-> TRUE ]
    /\ timeout = 0
    /\ major = 2
    /\ minor = 1
    /\ version = 1040
    /\ expected_next = ProgressStep
    /\ wrote = 0
    /\ address = STM32_FLASH_START_ADDRESS
    /\ fpos = 0
    /\ feof = FALSE
    /\ printed = << >>
    /\ cmds = << >>
    /\ sleeps = 0
    /\ flashCalls = 1
    /\ reads = << >>
    /\ session = "Erased"
    /\ errmsg = ""
    /\ exitcode = -1

\* one call writeh_progress(w), with w not below the last call's and not
\* above fpsize
Progress_Call ==
    /\ pc = "progress"
    /\ \E w \in ProgressArgs(fpsize) :
         /\ wrote <= w
         /\ wrote' = w
         /\ printed' = writeh_progress(w)[1]
         /\ expected_next' = writeh_progress(w)[2]
    /\ UNCHANGED << pc, port, file, skip_flash, send_go, fpsize, timeout,
                    major, minor, version, address, fpos, feof, cmds, sleeps,
                    flashCalls, reads, session, errmsg, exitcode, dev >>

NextProgress == Progress_Call

SpecProgress == InitProgress /\ [][NextProgress]_vars

---------------------------------------------------------------------------
(* C13 *)

\* C13: over any sequence of calls onProgress(bytesWritten) with
\* non-decreasing bytesWritten <= totalSize and totalSize > 0, the thresholds
\* reported are strictly increasing, multiples of 10, never above 100, never
\* repeated, and at most 10.
C13_ThresholdPolicy ==
    /\ \A i, j \in 1 .. Len(printed) : i < j => printed[i] < printed[j]
    /\ \A i \in 1 .. Len(printed) :
           /\ printed[i] % 10 = 0
           /\ printed[i] >= 10
           /\ printed[i] <= 100
    /\ Len(printed) <= 10

\* all ten thresholds were reported, for a total of more than 10 bytes
C13_Witness ==
    /\ Len(printed) = 10
    /\ printed[1] = 10
    /\ printed[10] = 100
    /\ wrote = fpsize
    /\ fpsize > 10

---------------------------------------------------------------------------
(* C14 *)

\* the skip flag is set, or the image path is "0"
SkipRequested == skip_flash = 1 \/ file = "0"

FlashChangingCmds == { "write_unprotect", "erase", "extended_erase", "write_memory" }

\* C14: when the skip flag is set or the image path is "0", no
\* write-unprotect, erase, extended-erase or write-memory command is ever
\* issued and the program step never starts; after a successful
\* identification the run is at the go step, or over, and a go command comes
\* directly after GetChipId.
C14_SkipProgramming ==
    SkipRequested =>
        /\ \A i \in CmdIndices : cmds[i].cmd \notin FlashChangingCmds
        /\ pc \notin { "unprotect", "erase", "program", "write_loop" }
        /\ flashCalls = 0
        /\ reads = << >>
        /\ (Succeeded("get_chip_id") /\ version \in SupportedIds) =>
               /\ session \in { "Identified", "Executing" }
               /\ send_go = 1 => (pc = "go" \/ Issued("go"))
               /\ send_go = 0 => pc = "done"
        /\ \A i \in CmdIndices :
               cmds[i].cmd = "go" => (i > 1 /\ cmds[i - 1].cmd = "get_chip_id")

\* with the image path "0", the run identified the chip, sent go and ended
C14_Witness ==
    /\ file = "0"
    /\ skip_flash = 1
    /\ Succeeded("go")
    /\ pc = "done"

---------------------------------------------------------------------------
(* C15 *)

\* the session has reached Identified with programming skipped, or
\* Programmed with programming done
ReadyForGo ==
    \/ /\ skip_flash = 1
       /\ Succeeded("get_chip_id")
       /\ version \in SupportedIds
    \/ /\ skip_flash = 0
       /\ ProgramSucceeded

\* C15: go is issued at most once, only with the send-go flag set and the
\* session at Programmed (or at Identified, programming skipped), and is then
\* the last command of the run; with the flag set and the session there, go
\* is the next step; with the flag not set the run ends there with success
\* and go is never issued.
C15_GoStep ==
    /\ Count("go") <= 1
    /\ Issued("go") =>
           /\ send_go = 1
           /\ ReadyForGo
           /\ cmds[Len(cmds)].cmd = "go"
           /\ pc \in { "done", "exit" }
    /\ (send_go = 1 /\ ReadyForGo) => (pc = "go" \/ Issued("go"))
    /\ (send_go = 0 /\ ReadyForGo) =>
           /\ pc = "done"
           /\ exitcode = 0
    /\ send_go = 0 => ~Issued("go")
    /\ session = "Executing" <=> Succeeded("go")

\* an image was programmed, go was sent and acknowledged, the run ended
C15_Witness ==
    /\ skip_flash = 0
    /\ Succeeded("write_memory")
    /\ ProgramSucceeded
    /\ Succeeded("go")
    /\ exitcode = 0

---------------------------------------------------------------------------
(* C16 *)

\* main() is one sequential control flow and every connect attempt returns:
\* the parameter check and each turn of the connect loop, once reached, are
\* eventually taken
SpecHandshakeFair ==
    /\ InitHandshake
    /\ [][Next]_vars
    /\ WF_vars(Main_CheckParams)
    /\ WF_vars(Main_Connect)

\* at most 61 connect attempts; one sleep(1) for each failed attempt, which
\* is what the retry counter counts
HandshakeBounded ==
    /\ Count("init") <= 61
    /\ timeout <= 61
    /\ sleeps = Cardinality({ i \in CmdIndices :
                                cmds[i].cmd = "init" /\ ~cmds[i].ok })
    /\ sleeps = timeout

\* C16: every connect attempt returning, the retry loop is eventually left,
\* by a successful attempt or by the fatal abort; no run makes more than 61
\* connect attempts; each failed attempt is followed by exactly one sleep
\* of one unit; the retry counter never decreases.
C16_HandshakeTerminates ==
    /\ []HandshakeBounded
    /\ [][timeout' >= timeout]_vars
    /\ <>(pc \notin { "check_params", "connect" })

\* the 61st attempt failed too, and the run aborted after its sleep
C16_Witness ==
    /\ Count("init") = 61
    /\ ~Succeeded("init")
    /\ sleeps = 61
    /\ pc = "exit"

---------------------------------------------------------------------------
(* C17 *)

\* the percentage actually written, floor(wrote * 100 / fpsize)
ActualPercent == (wrote * 100) \div fpsize

\* C17: a reported threshold never exceeds the percentage actually written
\* at the call that reports it (checked on the last threshold, in the state
\* each call leaves), and after k acknowledged blocks at most min(k, 10)
\* thresholds have been reported.
C17_NeverOverstates ==
    (flashCalls > 0 /\ fpsize > 0) =>
        /\ printed # << >> => printed[Len(printed)] <= ActualPercent
        /\ Len(printed) <= Min(Len(AckedLens(cmds)), 10)

\* the whole image was written in two blocks: 20 is the last threshold
\* reported, with 100 percent written
C17_Witness ==
    /\ flashCalls > 0
    /\ fpsize = 512
    /\ Len(AckedLens(cmds)) = 2
    /\ printed = << 10, 20 >>
    /\ ActualPercent = 100

---------------------------------------------------------------------------
(* C18 *)

\* floor((2^32 - 1) / 100), from 2^32 - 1 = Half * Half - 1
MaxNoWrap == (Half \div 100) * Half + ((Half % 100) * Half - 1) \div 100

\* what w * 100 loses above its low 32 bits, in units of 2^32
Carry(w) ==
    ((w \div Half) * 100 + ((w % Half) * 100) \div Half) \div Half

\* C18: for every totalSize <= floor((2^32 - 1) / 100) and bytesWritten <=
\* totalSize the product bytesWritten * 100 does not wrap and the computed
\* percentage is floor(bytesWritten * 100 / totalSize), within 0..100; for
\* bytesWritten above that bound the product wraps, the computed percentage
\* falls below the true one, and it is not monotone: it is lower one byte
\* past the bound than at the bound.
C18_PercentageWidth ==
    /\ (fpsize <= MaxNoWrap /\ wrote <= fpsize) =>
           /\ Carry(wrote) = 0
           /\ Pwrite(wrote, fpsize) = Percent(wrote, fpsize)
           /\ Pwrite(wrote, fpsize) \in 0 .. 100
    /\ (wrote > MaxNoWrap /\ wrote <= fpsize) =>
           /\ Carry(wrote) > 0
           /\ Pwrite(wrote, fpsize) < Percent(wrote, fpsize)
    /\ fpsize > MaxNoWrap =>
           Pwrite(MaxNoWrap + 1, fpsize) < Pwrite(MaxNoWrap, fpsize)

\* a call one byte past the bound, after thresholds were reported: the
\* percentage computed for it is below the last threshold reported
C18_Witness ==
    /\ wrote = MaxNoWrap + 1
    /\ printed # << >>
    /\ Pwrite(wrote, fpsize) < printed[Len(printed)]

---------------------------------------------------------------------------
(* C19 *)

\* programming is not skipped and the image is empty
EmptyImageRun == skip_flash = 0 /\ fpsize = 0

\* an acknowledged erase command that follows an acknowledged write-unprotect
ErasedAfterUnprotect ==
    \E i \in CmdIndices :
        cmds[i].cmd \in EraseCmds /\ cmds[i].ok /\ OkBefore(i, "write_unprotect")

\* C19: with programming not skipped and an image of length zero, the
\* session goes on to write-unprotect once the chip is identified; the
\* program step is reached only after an acknowledged write-unprotect and
\* then an acknowledged erase; the program step writes nothing; and the run
\* then goes to the go step if requested, or else ends with result 0. A run
\* that ends with result 0 has erased the device and written zero bytes.
C19_EmptyImageErases ==
    EmptyImageRun =>
        /\ (Succeeded("get_chip_id") /\ version \in SupportedIds) =>
               (pc = "unprotect" \/ Issued("write_unprotect"))
        /\ flashCalls > 0 =>
               /\ ErasedAfterUnprotect
               /\ ~Issued("write_memory")
               /\ wrote = 0
        /\ (flashCalls > 0 /\ pc # "write_loop") =>
               /\ send_go = 0 => (pc = "done" /\ exitcode = 0)
               /\ send_go = 1 => (pc = "go" \/ Issued("go"))
        /\ pc = "done" =>
               /\ exitcode = 0
               /\ flashCalls = 1
               /\ ErasedAfterUnprotect
               /\ wrote = 0

\* a run that ended with result 0, the device erased and nothing written
C19_Witness ==
    /\ EmptyImageRun
    /\ pc = "done"
    /\ exitcode = 0
    /\ send_go = 0
    /\ ErasedAfterUnprotect
    /\ wrote = 0
    /\ ~Issued("write_memory")

===========================================================================
